---- MODULE Spec2Model ----
(***************************************************************************)
(* k8s-apply: a minimal Kubernetes API client (src/k8s-apply.js).          *)
(*                                                                         *)
(* The model has three layers, as the source has:                          *)
(*   - strings and JSON texts, as sequences of one-character strings, so   *)
(*     that indexOf, toLowerCase, template literals, JSON.stringify and    *)
(*     Buffer.byteLength are computed and not assumed;                     *)
(*   - the transport: defaults, request and the get/post/put/del wrappers, *)
(*     as operators that build the options handed to https.request;        *)
(*   - the calls: applyObject, delObject and the wrappers, as processes    *)
(*     that suspend only while a request is in flight. One action is one   *)
(*     turn of the event loop: an I/O event together with the promise      *)
(*     callbacks it makes runnable.                                        *)
(***************************************************************************)
EXTENDS Integers, Sequences, FiniteSets, TLC

(***************************************************************************)
(* Bounds of the model.                                                    *)
(***************************************************************************)
\* distinct resourceVersion values the server hands out
NumVersions == 2
\* longest apiVersion / kind given to getPluralPath in SpecPath
MaxApiVersionLen == 3
MaxKindLen == 2

\* K8sApi instances constructed, and secure contexts created
MaxInstances == 3

MaxContexts == 3

(***************************************************************************)
(* Strings: sequences of one-character strings.                            *)
(***************************************************************************)
UpperCase ==
    <<"A","B","C","D","E","F","G","H","I","J","K","L","M",
      "N","O","P","Q","R","S","T","U","V","W","X","Y","Z">>

LowerCase ==
    <<"a","b","c","d","e","f","g","h","i","j","k","l","m",
      "n","o","p","q","r","s","t","u","v","w","x","y","z">>

\* String.prototype.toLowerCase, on the ASCII letters
toLowerCase(s) ==
    [i \in 1..Len(s) |->
        IF \E j \in 1..Len(UpperCase) : UpperCase[j] = s[i]
        THEN LowerCase[CHOOSE j \in 1..Len(UpperCase) : UpperCase[j] = s[i]]
        ELSE s[i]]

\* String.prototype.indexOf for a one-character needle: the 0-based position
\* of its first occurrence, -1 when there is none
indexOf(s, ch) ==
    IF \E i \in 1..Len(s) : s[i] = ch
    THEN (CHOOSE i \in 1..Len(s) : s[i] = ch /\ \A j \in 1..(i-1) : s[j] # ch) - 1
    ELSE -1

\* all non-empty strings over an alphabet, up to a length
StringsUpTo(alphabet, n) == UNION {[1..k -> alphabet] : k \in 1..n}

IsPrefix(p, s) == Len(p) <= Len(s) /\ SubSeq(s, 1, Len(p)) = p

IsSuffix(p, s) == Len(p) <= Len(s) /\ SubSeq(s, Len(s) - Len(p) + 1, Len(s)) = p

(***************************************************************************)
(* JavaScript objects are functions from their own keys; a key that is     *)
(* absent is not in the DOMAIN. undefined is a value of its own.           *)
(***************************************************************************)
EmptyObject == <<>>

Undefined == [undefined |-> TRUE]

\* defaults( target, defaults ): every key of defaults that target lacks is
\* copied into target; keys target has are kept
defaults(target, dflt) ==
    [key \in DOMAIN target \cup DOMAIN dflt |->
        IF key \in DOMAIN target THEN target[key] ELSE dflt[key]]

(***************************************************************************)
(* Resource objects: apiVersion, kind and metadata {namespace, name,       *)
(* resourceVersion}; any of the keys may be absent.                        *)
(***************************************************************************)
ObjectKeyOrder == <<"apiVersion", "kind", "metadata">>

MetadataKeyOrder == <<"namespace", "name", "resourceVersion">>

\* the characters of a key as it is written in a JSON text
KeyText(key) ==
    CASE key = "apiVersion" -> <<"a","p","i","V","e","r","s","i","o","n">>
      [] key = "kind" -> <<"k","i","n","d">>
      [] key = "metadata" -> <<"m","e","t","a","d","a","t","a">>
      [] key = "namespace" -> <<"n","a","m","e","s","p","a","c","e">>
      [] key = "name" -> <<"n","a","m","e">>
      [] key = "resourceVersion" ->
            <<"r","e","s","o","u","r","c","e","V","e","r","s","i","o","n">>

Quoted(s) == <<"\"">> \o s \o <<"\"">>

RECURSIVE JoinMembers(_)
JoinMembers(members) ==
    IF members = <<>> THEN <<>>
    ELSE IF Len(members) = 1 THEN members[1]
    ELSE members[1] \o <<",">> \o JoinMembers(Tail(members))

\* the JSON text of an object whose values are strings: its own keys in
\* insertion order, no white space
StringifyFlat(obj, keyOrder) ==
    LET keys == SelectSeq(keyOrder, LAMBDA key : key \in DOMAIN obj)
    IN  <<"{">>
        \o JoinMembers([i \in 1..Len(keys) |->
                Quoted(KeyText(keys[i])) \o <<":">> \o Quoted(obj[keys[i]])])
        \o <<"}">>

\* JSON.stringify( object ) of a resource object
JSONstringify(object) ==
    LET keys == SelectSeq(ObjectKeyOrder, LAMBDA key : key \in DOMAIN object)
    IN  <<"{">>
        \o JoinMembers([i \in 1..Len(keys) |->
                Quoted(KeyText(keys[i])) \o <<":">> \o
                (IF keys[i] = "metadata"
                 THEN StringifyFlat(object[keys[i]], MetadataKeyOrder)
                 ELSE Quoted(object[keys[i]]))])
        \o <<"}">>

\* Buffer.byteLength( body ): every character of the model is one byte
byteLength(body) == Len(body)

(***************************************************************************)
(* getPluralPath (line 85)                                                 *)
(***************************************************************************)
getPluralPath(object) ==
    <<"/","a","p","i">>
    \o (IF indexOf(object.apiVersion, "/") > 0 THEN <<"s">> ELSE <<>>)
    \o <<"/">> \o object.apiVersion
    \o <<"/","n","a","m","e","s","p","a","c","e","s","/">>
    \o object.metadata.namespace
    \o <<"/">> \o toLowerCase(object.kind) \o <<"s">>

(***************************************************************************)
(* Credentials and endpoint (lines 8-9, 36).                               *)
(***************************************************************************)
token == "TOKEN"

KUBERNETES_SERVICE_HOST == "kubernetes.default.svc"

(***************************************************************************)
(* The transport. Each operator yields the options object that reaches     *)
(* https.request; Wire is what https.request and req.write put on the      *)
(* connection for it.                                                      *)
(***************************************************************************)
\* options || {}
OrEmpty(options) == IF options = Undefined THEN EmptyObject ELSE options

\* request (lines 34-46): the options after both defaults calls
request(path, options) ==
    LET merged == defaults(OrEmpty(options),
                     [hostname |-> KUBERNETES_SERVICE_HOST,
                      port |-> 443,
                      path |-> path,
                      method |-> "GET",
                      headers |-> EmptyObject])
    IN  [merged EXCEPT !.headers =
            defaults(merged.headers, [Authorization |-> "Bearer " \o token])]

\* get (line 64)
get(path, options) ==
    request(path, defaults(OrEmpty(options), [method |-> "GET"]))

\* post (lines 67-75)
post(path, object, options) ==
    LET body == JSONstringify(object)
    IN  request(path, defaults(OrEmpty(options),
            [method |-> "POST",
             headers |-> ("Content-Type" :> "application/json"
                          @@ "Content-Length" :> byteLength(body)),
             postData |-> body]))

\* put (line 78): the options argument is not used
put(path, object, options) == post(path, object, [method |-> "PUT"])

\* a del that leaves the method to the default of request
delWithoutMethod(path, options) == request(path, EmptyObject)

\* del (line 81): the options argument is not used
del(path, options) == request(path, [method |-> "DELETE"])

\* https.request( options, ... ), req.write( options.postData ) when it is
\* truthy, req.end() (lines 50-58): the request as it is sent
Wire(options) ==
    [hostname |-> options.hostname,
     port |-> options.port,
     method |-> options.method,
     path |-> options.path,
     headers |-> options.headers,
     body |-> IF "postData" \in DOMAIN options /\ options.postData # <<>>
              THEN options.postData ELSE <<>>]

(***************************************************************************)
(* The API server, as far as the client can tell: to a request it answers  *)
(* a status code and a body text, or the connection fails.                 *)
(* A 200/201 answer to GET, POST and PUT carries the stored object, of     *)
(* which the client reads metadata.resourceVersion only; every other       *)
(* answer carries a Status object. A body may also be no JSON at all       *)
(* (empty, or a proxy's error page).                                       *)
(***************************************************************************)
StatusCodes == {200, 201, 400, 403, 404, 409, 500}

Digits == <<"1","2","3","4","5","6","7","8","9">>

\* the resourceVersions the server hands out: "41", "42", ...
ResourceVersions == {<<"4", Digits[i]>> : i \in 1..NumVersions}

StoredObject(rv) == [metadata |-> [resourceVersion |-> rv]]

StatusObject ==
    [apiVersion |-> <<"v","1">>, kind |-> <<"S","t","a","t","u","s">>,
     metadata |-> EmptyObject]

Methods == {"GET", "POST", "PUT", "DELETE", "PATCH"}

ServerData(method, statusCode) ==
    IF statusCode \in {200, 201} /\ method \in {"GET", "POST", "PUT"}
    THEN {StoredObject(rv) : rv \in ResourceVersions}
    ELSE {StatusObject}

UnparsableTexts == {<<>>, <<"<","h","t","m","l",">">>}

\* the body texts the server may send with a status, per method
ServerTexts ==
    [method \in Methods, statusCode \in StatusCodes |->
        {JSONstringify(data) : data \in ServerData(method, statusCode)}
            \cup UnparsableTexts]

AllTexts == UNION {ServerTexts[key] : key \in DOMAIN ServerTexts}

\* what the 'error' event of a request carries
TransportErrors == {"ECONNREFUSED", "ECONNRESET"}

(***************************************************************************)
(* The caller's resource objects, by reference.                            *)
(***************************************************************************)
Refs == {"o1", "o2"}

\* a core-group object as it is written in a manifest, and a grouped one
\* that carries a resourceVersion of an earlier read
CallerObject(ref) ==
    IF ref = "o1"
    THEN [apiVersion |-> <<"v","1">>,
          kind |-> <<"S","e","r","v","i","c","e">>,
          metadata |-> [namespace |-> <<"n","s","1">>,
                        name |-> <<"s","v","c","-","a">>]]
    ELSE [apiVersion |-> <<"a","p","p","s","/","v","1">>,
          kind |-> <<"D","e","p","l","o","y","m","e","n","t">>,
          metadata |-> [namespace |-> <<"n","s","2">>,
                        name |-> <<"w","e","b">>,
                        resourceVersion |-> <<"7">>]]

\* the injection left out
KeepResourceVersion(object, rv) == object

\* object.metadata = the fetched metadata, instead of the one field
ReplaceMetadata(object, rv) ==
    [object EXCEPT !.metadata = [resourceVersion |-> rv]]

\* object.metadata.resourceVersion = rv
SetResourceVersion(object, rv) ==
    [object EXCEPT !.metadata =
        [key \in DOMAIN object.metadata \cup {"resourceVersion"} |->
            IF key = "resourceVersion" THEN rv ELSE object.metadata[key]]]

\* every value a JSON text of the model can stand for
JsonValues ==
    {StoredObject(rv) : rv \in ResourceVersions} \cup {StatusObject}
    \cup {CallerObject(ref) : ref \in Refs}
    \cup {SetResourceVersion(CallerObject(ref), rv) :
            ref \in Refs, rv \in ResourceVersions}

\* the JSON texts of the model, with the value each stands for
JsonTexts == {<<JSONstringify(value), value>> : value \in JsonValues}

\* JSON.parse( text ): the value the text stands for, or a SyntaxError
JSONparse(text) ==
    IF \E entry \in JsonTexts : entry[1] = text
    THEN [ok |-> TRUE, value |-> (CHOOSE entry \in JsonTexts : entry[1] = text)[2]]
    ELSE [ok |-> FALSE, value |-> Undefined]

(***************************************************************************)
(* State.                                                                  *)
(***************************************************************************)
VARIABLES
    objects,   \* the caller's objects: reference -> object
    op,        \* call -> the method called
    arg,       \* call -> reference of its object argument
    path,      \* call -> the local variable path (getPluralPath: its result)
    pc,        \* call -> the request it is waiting for, or "done"
    sent,      \* call -> the requests it has sent, in order
    results,   \* call -> the outcomes of its request promises, in order
    promise,   \* call -> the promise it returned to the caller
    uncaught,  \* calls whose 'end' handler threw (uncaught exception)
    sharedOptions,        \* an options object the caller keeps between calls
    createSecureContext,  \* tls.createSecureContext: the wrappers around the original
    contexts,  \* the secure contexts created: the CA certificates added to each
    server,    \* the resource as the API server stores it
    response   \* the answers the server has sent that are not yet received

vars == <<objects, op, arg, path, pc, sent, results, promise, uncaught,
          sharedOptions, createSecureContext, contexts, server, response>>

\* what lies outside the calls themselves: the caller's options object, the
\* tls module, the API server and the network
env == <<sharedOptions, createSecureContext, contexts, server, response>>

\* The caller awaits each call before it issues the next, as the ReadMe's
\* examples do (ReadMe lines 83-123): there is one call at a time, and a call
\* that has ended makes room for the next one.
Calls == {1}

Pending == [state |-> "pending"]

Fulfilled(value) == [state |-> "fulfilled", value |-> value]

Rejected(reason) == [state |-> "rejected", reason |-> reason]

InFlight(c) == pc[c] \in {"create", "read", "update", "delete", "wrapper"}

LastSent(c) == sent[c][Len(sent[c])]

\* the process is running: an uncaught exception ends it
Running == uncaught = {}

\* new K8sApi() (lines 20-29) has run once: one wrapper is installed on
\* tls.createSecureContext. The caller's options object is a fresh {}, no
\* resource is stored and nothing is in flight
InitEnv ==
    /\ sharedOptions = EmptyObject
    /\ createSecureContext = <<"K8sApi">>
    /\ contexts = <<>>
    /\ server = [exists |-> FALSE, version |-> 0]
    /\ response = {}

Init ==
    /\ objects = [ref \in Refs |-> CallerObject(ref)]
    /\ op = [c \in Calls |-> "none"]
    /\ arg = [c \in Calls |-> "none"]
    /\ path = [c \in Calls |-> <<>>]
    /\ pc = [c \in Calls |-> "idle"]
    /\ sent = [c \in Calls |-> <<>>]
    /\ results = [c \in Calls |-> <<>>]
    /\ promise = [c \in Calls |-> [state |-> "none"]]
    /\ uncaught = {}
    /\ InitEnv

\* the caller may issue a call
CanCall(c) == Running /\ pc[c] \in {"idle", "done"}

\* a call starts: it runs up to its first request, which is sent, and
\* returns a pending promise
Start(c, method, ref, p, options, stage) ==
    /\ op' = [op EXCEPT ![c] = method]
    /\ arg' = [arg EXCEPT ![c] = ref]
    /\ path' = [path EXCEPT ![c] = p]
    /\ pc' = [pc EXCEPT ![c] = stage]
    /\ sent' = [sent EXCEPT ![c] = <<Wire(options)>>]
    /\ results' = [results EXCEPT ![c] = <<>>]
    /\ promise' = [promise EXCEPT ![c] = Pending]
    /\ UNCHANGED <<objects, uncaught>>

(***************************************************************************)
(* applyObject (lines 89-107) and delObject (lines 110-113).               *)
(***************************************************************************)
\* lines 90-91: the path, and the create request
CallApplyObject(c, ref) ==
    /\ CanCall(c)
    /\ LET p == getPluralPath(objects[ref])
       IN  Start(c, "applyObject", ref, p,
                 post(p, objects[ref], Undefined), "create")

\* lines 111-112
CallDelObject(c, ref) ==
    /\ CanCall(c)
    /\ LET p == getPluralPath(objects[ref]) \o <<"/">> \o objects[ref].metadata.name
       IN  Start(c, "delObject", ref, p, del(p, Undefined), "delete")

\* the 'end' event of the response (line 53) when the body parses: the
\* request promise is fulfilled with { statusCode, data }
Answer(c, statusCode, text) ==
    /\ Running
    /\ InFlight(c)
    /\ text \in ServerTexts[LastSent(c).method, statusCode]
    /\ JSONparse(text).ok

Result(statusCode, text) ==
    [statusCode |-> statusCode, data |-> JSONparse(text).value]

\* a create that treats every failure as a conflict
NoConflictOnSuccessOnly(res) == res.statusCode \in {200, 201}

\* line 94: res.statusCode != 409
NoConflict(res) == res.statusCode # 409

\* a read that passes every status below 400
ReadFailedOnErrorsOnly(statusCode) == statusCode >= 400

\* line 101: statusCode != 200
ReadFailed(statusCode) == statusCode # 200

\* lines 92-99: the callback on the create's result
CreateResult(c, statusCode, text) ==
    /\ pc[c] = "create"
    /\ Answer(c, statusCode, text)
    /\ LET res == Result(statusCode, text)
       IN  /\ results' = [results EXCEPT ![c] = Append(@, Fulfilled(res))]
           /\ IF NoConflict(res)
              THEN /\ promise' = [promise EXCEPT ![c] = Fulfilled(res)]
                   /\ pc' = [pc EXCEPT ![c] = "done"]
                   /\ UNCHANGED <<path, sent>>
              ELSE LET p == path[c] \o <<"/">> \o objects[arg[c]].metadata.name
                   IN  /\ path' = [path EXCEPT ![c] = p]
                       /\ sent' = [sent EXCEPT ![c] =
                                      Append(@, Wire(get(p, Undefined)))]
                       /\ pc' = [pc EXCEPT ![c] = "read"]
                       /\ UNCHANGED promise
    /\ UNCHANGED <<objects, op, arg, uncaught>>

\* a read callback that serializes the update before it injects the version:
\* the body is the object as the callback found it
ReadResultPutBeforeInjection(c, statusCode, text) ==
    /\ pc[c] = "read"
    /\ Answer(c, statusCode, text)
    /\ LET res == Result(statusCode, text)
       IN  /\ results' = [results EXCEPT ![c] = Append(@, Fulfilled(res))]
           /\ IF ReadFailed(res.statusCode)
              THEN /\ promise' = [promise EXCEPT ![c] = Rejected(
                          [error |-> "k8s-apply cannot get object",
                           statusCode |-> res.statusCode,
                           data |-> res.data])]
                   /\ pc' = [pc EXCEPT ![c] = "done"]
                   /\ UNCHANGED <<objects, sent>>
              ELSE LET updated == SetResourceVersion(objects[arg[c]],
                                      res.data.metadata.resourceVersion)
                   IN  /\ objects' = [objects EXCEPT ![arg[c]] = updated]
                       /\ sent' = [sent EXCEPT ![c] =
                               Append(@, Wire(put(path[c], objects[arg[c]], Undefined)))]
                       /\ pc' = [pc EXCEPT ![c] = "update"]
                       /\ UNCHANGED promise
    /\ UNCHANGED <<op, arg, path, uncaught>>

\* lines 100-104: the callback on the read's result
ReadResult(c, statusCode, text) ==
    /\ pc[c] = "read"
    /\ Answer(c, statusCode, text)
    /\ LET res == Result(statusCode, text)
       IN  /\ results' = [results EXCEPT ![c] = Append(@, Fulfilled(res))]
           /\ IF ReadFailed(res.statusCode)
              THEN /\ promise' = [promise EXCEPT ![c] = Rejected(
                          [error |-> "k8s-apply cannot get object",
                           statusCode |-> res.statusCode,
                           data |-> res.data])]
                   /\ pc' = [pc EXCEPT ![c] = "done"]
                   /\ UNCHANGED <<objects, sent>>
              ELSE LET updated == SetResourceVersion(objects[arg[c]],
                                      res.data.metadata.resourceVersion)
                   IN  /\ objects' = [objects EXCEPT ![arg[c]] = updated]
                       /\ sent' = [sent EXCEPT ![c] =
                               Append(@, Wire(put(path[c], updated, Undefined)))]
                       /\ pc' = [pc EXCEPT ![c] = "update"]
                       /\ UNCHANGED promise
    /\ UNCHANGED <<op, arg, path, uncaught>>

\* an update that is answered 409 (stale resourceVersion) starts the read
\* again
LastResultRetrying(c, statusCode, text) ==
    /\ pc[c] \in {"update", "delete", "wrapper"}
    /\ Answer(c, statusCode, text)
    /\ LET res == Result(statusCode, text)
       IN  /\ results' = [results EXCEPT ![c] = Append(@, Fulfilled(res))]
           /\ IF pc[c] = "update" /\ res.statusCode = 409
              THEN /\ sent' = [sent EXCEPT ![c] =
                              Append(@, Wire(get(path[c], Undefined)))]
                   /\ pc' = [pc EXCEPT ![c] = "read"]
                   /\ UNCHANGED promise
              ELSE /\ promise' = [promise EXCEPT ![c] = Fulfilled(res)]
                   /\ pc' = [pc EXCEPT ![c] = "done"]
                   /\ UNCHANGED sent
    /\ UNCHANGED <<objects, op, arg, path, uncaught>>

\* the result of the last request of a call (the update of applyObject, the
\* delete of delObject, the request of a wrapper) is the call's result
LastResult(c, statusCode, text) ==
    /\ pc[c] \in {"update", "delete", "wrapper"}
    /\ Answer(c, statusCode, text)
    /\ LET res == Result(statusCode, text)
       IN  /\ results' = [results EXCEPT ![c] = Append(@, Fulfilled(res))]
           /\ promise' = [promise EXCEPT ![c] = Fulfilled(res)]
           /\ pc' = [pc EXCEPT ![c] = "done"]
    /\ UNCHANGED <<objects, op, arg, path, sent, uncaught>>

\* the 'end' event (line 53) when the body is no JSON: JSON.parse throws in
\* the event handler, outside the promise executor. Neither fulfill nor
\* reject is called; the exception is uncaught
ResponseUnparsable(c, statusCode, text) ==
    /\ Running
    /\ InFlight(c)
    /\ text \in ServerTexts[LastSent(c).method, statusCode]
    /\ ~JSONparse(text).ok
    /\ uncaught' = uncaught \cup {c}
    /\ UNCHANGED <<objects, op, arg, path, pc, sent, results, promise>>

\* a create whose transport error is taken for a conflict: the read follows
RequestErrorSwallowed(c, error) ==
    /\ Running
    /\ InFlight(c)
    /\ results' = [results EXCEPT ![c] = Append(@, Rejected([error |-> error]))]
    /\ IF pc[c] = "create"
       THEN /\ sent' = [sent EXCEPT ![c] = Append(@, Wire(get(path[c], Undefined)))]
            /\ pc' = [pc EXCEPT ![c] = "read"]
            /\ UNCHANGED promise
       ELSE /\ promise' = [promise EXCEPT ![c] = Rejected([error |-> error])]
            /\ pc' = [pc EXCEPT ![c] = "done"]
            /\ UNCHANGED sent
    /\ UNCHANGED <<objects, op, arg, path, uncaught>>

\* the 'error' event of the request (line 55): the request promise is
\* rejected, and with it every promise chained on it
RequestError(c, error) ==
    /\ Running
    /\ InFlight(c)
    /\ results' = [results EXCEPT ![c] = Append(@, Rejected([error |-> error]))]
    /\ promise' = [promise EXCEPT ![c] = Rejected([error |-> error])]
    /\ pc' = [pc EXCEPT ![c] = "done"]
    /\ UNCHANGED <<objects, op, arg, path, sent, uncaught>>

Next ==
    \/ \E c \in Calls, ref \in Refs :
            CallApplyObject(c, ref) /\ UNCHANGED env
    \/ \E c \in Calls, ref \in Refs :
            CallDelObject(c, ref) /\ UNCHANGED env
    \/ \E c \in Calls, statusCode \in StatusCodes, text \in AllTexts :
            CreateResult(c, statusCode, text) /\ UNCHANGED env
    \/ \E c \in Calls, statusCode \in StatusCodes, text \in AllTexts :
            ReadResult(c, statusCode, text) /\ UNCHANGED env
    \/ \E c \in Calls, statusCode \in StatusCodes, text \in AllTexts :
            LastResult(c, statusCode, text) /\ UNCHANGED env
    \/ \E c \in Calls, statusCode \in StatusCodes, text \in AllTexts :
            ResponseUnparsable(c, statusCode, text) /\ UNCHANGED env
    \/ \E c \in Calls, error \in TransportErrors :
            RequestError(c, error) /\ UNCHANGED env

Spec == Init /\ [][Next]_vars

(***************************************************************************)
(* The wrappers called by the caller itself (ReadMe lines 23-28), with or  *)
(* without an options argument.                                            *)
(***************************************************************************)
CallerPaths == {getPluralPath(CallerObject(ref)) : ref \in Refs}

CallerOptions ==
    {Undefined,
     [method |-> "PATCH"],
     [headers |-> [Authorization |-> "Basic dXNlcjpwYXNz"]],
     [postData |-> <<"{","}">>]}

CallRequest(c, p, options) ==
    /\ CanCall(c)
    /\ Start(c, "request", "none", p, request(p, options), "wrapper")

CallGet(c, p, options) ==
    /\ CanCall(c)
    /\ Start(c, "get", "none", p, get(p, options), "wrapper")

CallPost(c, p, ref, options) ==
    /\ CanCall(c)
    /\ Start(c, "post", ref, p, post(p, objects[ref], options), "wrapper")

CallPut(c, p, ref, options) ==
    /\ CanCall(c)
    /\ Start(c, "put", ref, p, put(p, objects[ref], options), "wrapper")

CallDel(c, p, options) ==
    /\ CanCall(c)
    /\ Start(c, "del", "none", p, del(p, options), "wrapper")

NextTransport ==
    \/ \E c \in Calls, p \in CallerPaths, options \in CallerOptions :
            CallRequest(c, p, options) /\ UNCHANGED env
    \/ \E c \in Calls, p \in CallerPaths, options \in CallerOptions :
            CallGet(c, p, options) /\ UNCHANGED env
    \/ \E c \in Calls, p \in CallerPaths, ref \in Refs, options \in CallerOptions :
            CallPost(c, p, ref, options) /\ UNCHANGED env
    \/ \E c \in Calls, p \in CallerPaths, ref \in Refs, options \in CallerOptions :
            CallPut(c, p, ref, options) /\ UNCHANGED env
    \/ \E c \in Calls, p \in CallerPaths, options \in CallerOptions :
            CallDel(c, p, options) /\ UNCHANGED env
    \/ \E c \in Calls, statusCode \in StatusCodes, text \in AllTexts :
            LastResult(c, statusCode, text) /\ UNCHANGED env
    \/ \E c \in Calls, statusCode \in StatusCodes, text \in AllTexts :
            ResponseUnparsable(c, statusCode, text) /\ UNCHANGED env
    \/ \E c \in Calls, error \in TransportErrors :
            RequestError(c, error) /\ UNCHANGED env

SpecTransport == Init /\ [][NextTransport]_vars

(***************************************************************************)
(* A caller that keeps one options object, written as {}, and passes it to *)
(* call after call. defaults (lines 11-17) writes into its target: what a  *)
(* wrapper merges into the options stays in the caller's object.           *)
(***************************************************************************)
\* request( path, sharedOptions )
CallRequestShared(c, p) ==
    /\ CanCall(c)
    /\ LET options == request(p, sharedOptions)
       IN  /\ Start(c, "request", "none", p, options, "wrapper")
           /\ sharedOptions' = options

\* get( path, sharedOptions )
CallGetShared(c, p) ==
    /\ CanCall(c)
    /\ LET options == get(p, sharedOptions)
       IN  /\ Start(c, "get", "none", p, options, "wrapper")
           /\ sharedOptions' = options

\* post( path, object, sharedOptions )
CallPostShared(c, p, ref) ==
    /\ CanCall(c)
    /\ LET options == post(p, objects[ref], sharedOptions)
       IN  /\ Start(c, "post", ref, p, options, "wrapper")
           /\ sharedOptions' = options

\* what stays as it is when a call is given the caller's options object
envButOptions == <<createSecureContext, contexts, server, response>>

NextOptions ==
    \/ \E c \in Calls, p \in CallerPaths :
            CallRequestShared(c, p) /\ UNCHANGED envButOptions
    \/ \E c \in Calls, p \in CallerPaths :
            CallGetShared(c, p) /\ UNCHANGED envButOptions
    \/ \E c \in Calls, p \in CallerPaths, ref \in Refs :
            CallPostShared(c, p, ref) /\ UNCHANGED envButOptions
    \/ \E c \in Calls, statusCode \in StatusCodes, text \in AllTexts :
            LastResult(c, statusCode, text) /\ UNCHANGED env
    \/ \E c \in Calls, statusCode \in StatusCodes, text \in AllTexts :
            ResponseUnparsable(c, statusCode, text) /\ UNCHANGED env
    \/ \E c \in Calls, error \in TransportErrors :
            RequestError(c, error) /\ UNCHANGED env

SpecOptions == Init /\ [][NextOptions]_vars

(***************************************************************************)
(* The tls module. The constructor (lines 20-29) replaces                  *)
(* tls.createSecureContext by a function that calls the function it found  *)
(* there and adds the CA certificate to the context that comes back.       *)
(* Whoever opens a TLS connection in the process (https.request does)      *)
(* calls tls.createSecureContext.                                          *)
(***************************************************************************)
\* line 8: the service account's ca.crt
certificate == "ca.crt"

\* the options tls.createSecureContext is called with
TlsOptions == {[minVersion |-> "TLSv1.2"], [minVersion |-> "TLSv1.3"]}

\* the call of a createSecureContext that has these wrappers around the
\* original (lines 22-26): the outermost wrapper calls the function below
\* it, down to the original, and each wrapper adds the certificate on the
\* way back
RECURSIVE CallCreateSecureContext(_, _)
CallCreateSecureContext(wrappers, options) ==
    IF wrappers = <<>>
    THEN [options |-> options, caCerts |-> <<>>]
    ELSE LET context ==
                CallCreateSecureContext(SubSeq(wrappers, 1, Len(wrappers) - 1), options)
         IN  [context EXCEPT !.caCerts = Append(@, certificate)]

\* the state of the calls
callVars == <<objects, op, arg, path, pc, sent, results, promise, uncaught>>

\* new K8sApi() (lines 20-29)
Construct ==
    /\ Running
    /\ Len(createSecureContext) < MaxInstances
    /\ createSecureContext' = Append(createSecureContext, "K8sApi")
    /\ UNCHANGED <<callVars, sharedOptions, contexts, server, response>>

\* tls.createSecureContext( options )
CreateSecureContext(options) ==
    /\ Running
    /\ Len(contexts) < MaxContexts
    /\ contexts' = Append(contexts,
                      CallCreateSecureContext(createSecureContext, options))
    /\ UNCHANGED <<callVars, sharedOptions, createSecureContext, server, response>>

NextTls ==
    \/ Construct
    \/ \E options \in TlsOptions : CreateSecureContext(options)

SpecTls == Init /\ [][NextTls]_vars

(***************************************************************************)
(* Calls of applyObject that overlap: the caller does not await one before *)
(* it issues the next. applyObject takes no lock and keeps no record of    *)
(* the calls in flight (lines 89-107), so a call starts whatever the other *)
(* is doing. Both references stand for the same resource (two parses of    *)
(* one manifest), and either may be given to both calls.                   *)
(* The API server stores that one resource. It answers 409 to the create   *)
(* of an object that exists (ReadMe line 42), the stored resourceVersion   *)
(* to a read (ReadMe line 43), and 409 to an update that carries another   *)
(* resourceVersion than the stored one; an update that succeeds gives the  *)
(* resource its next version. The server handles a request at some moment  *)
(* after it was sent, and the answer arrives at some moment after that.    *)
(***************************************************************************)
ConcurrentCalls == {1, 2}

InitConcurrent ==
    /\ objects = [ref \in Refs |-> CallerObject("o1")]
    /\ op = [c \in ConcurrentCalls |-> "none"]
    /\ arg = [c \in ConcurrentCalls |-> "none"]
    /\ path = [c \in ConcurrentCalls |-> <<>>]
    /\ pc = [c \in ConcurrentCalls |-> "idle"]
    /\ sent = [c \in ConcurrentCalls |-> <<>>]
    /\ results = [c \in ConcurrentCalls |-> <<>>]
    /\ promise = [c \in ConcurrentCalls |-> [state |-> "none"]]
    /\ uncaught = {}
    /\ InitEnv

\* the resourceVersion of the stored resource: "41", "42", ...
ServerVersion(version) == <<"4", Digits[version]>>

\* metadata.resourceVersion of the object in a request body, <<>> if none
BodyVersion(body) ==
    LET metadata == JSONparse(body).value.metadata
    IN  IF "resourceVersion" \in DOMAIN metadata
        THEN metadata.resourceVersion ELSE <<>>

\* the server's answer to a request, and the resource after it
ServerAnswer(req) ==
    CASE req.method = "POST" /\ server.exists ->
            [statusCode |-> 409, data |-> StatusObject, server |-> server]
      [] req.method = "POST" /\ ~server.exists ->
            [statusCode |-> 201, data |-> StoredObject(ServerVersion(1)),
             server |-> [exists |-> TRUE, version |-> 1]]
      [] req.method = "GET" /\ server.exists ->
            [statusCode |-> 200, data |-> StoredObject(ServerVersion(server.version)),
             server |-> server]
      [] req.method = "PUT" /\ server.exists
            /\ BodyVersion(req.body) = ServerVersion(server.version) ->
            [statusCode |-> 200,
             data |-> StoredObject(ServerVersion(server.version + 1)),
             server |-> [server EXCEPT !.version = @ + 1]]
      [] req.method = "PUT" /\ server.exists
            /\ BodyVersion(req.body) # ServerVersion(server.version) ->
            [statusCode |-> 409, data |-> StatusObject, server |-> server]
      [] OTHER ->
            [statusCode |-> 404, data |-> StatusObject, server |-> server]

Unanswered(c) == InFlight(c) /\ \A r \in response : r.call # c

\* the server handles the request a call is waiting for
ServerHandle(c) ==
    /\ Running
    /\ Unanswered(c)
    /\ LET answer == ServerAnswer(LastSent(c))
       IN  /\ answer.server.version <= NumVersions
           /\ server' = answer.server
           /\ response' = response \cup
                   {[call |-> c, statusCode |-> answer.statusCode,
                     text |-> JSONstringify(answer.data)]}
    /\ UNCHANGED <<callVars, sharedOptions, createSecureContext, contexts>>

\* an answer arrives: it leaves the network
Received(r) ==
    /\ response' = response \ {r}
    /\ UNCHANGED <<sharedOptions, createSecureContext, contexts, server>>

NextConcurrent ==
    \/ \E c \in ConcurrentCalls, ref \in Refs :
            CallApplyObject(c, ref) /\ UNCHANGED env
    \/ \E c \in ConcurrentCalls : ServerHandle(c)
    \/ \E r \in response :
            CreateResult(r.call, r.statusCode, r.text) /\ Received(r)
    \/ \E r \in response :
            ReadResult(r.call, r.statusCode, r.text) /\ Received(r)
    \/ \E r \in response :
            LastResult(r.call, r.statusCode, r.text) /\ Received(r)

SpecConcurrent == InitConcurrent /\ [][NextConcurrent]_vars

(***************************************************************************)
(* getPluralPath called on its own, on objects of every apiVersion and     *)
(* kind up to a length.                                                    *)
(***************************************************************************)
ApiVersionChars == {"/", "v", "1"}

KindChars == {"S", "y"}

PathObject(apiVersion, kind) ==
    [apiVersion |-> apiVersion,
     kind |-> kind,
     metadata |-> [namespace |-> <<"n","s","1">>, name |-> <<"x">>]]

InitPath ==
    /\ \E apiVersion \in StringsUpTo(ApiVersionChars, MaxApiVersionLen),
          kind \in StringsUpTo(KindChars, MaxKindLen) :
            objects = [ref \in Refs |-> PathObject(apiVersion, kind)]
    /\ op = [c \in Calls |-> "none"]
    /\ arg = [c \in Calls |-> "none"]
    /\ path = [c \in Calls |-> <<>>]
    /\ pc = [c \in Calls |-> "idle"]
    /\ sent = [c \in Calls |-> <<>>]
    /\ results = [c \in Calls |-> <<>>]
    /\ promise = [c \in Calls |-> [state |-> "none"]]
    /\ uncaught = {}
    /\ InitEnv

\* getPluralPath returns at once; path holds what it returned
CallGetPluralPath(c, ref) ==
    /\ CanCall(c)
    /\ op' = [op EXCEPT ![c] = "getPluralPath"]
    /\ arg' = [arg EXCEPT ![c] = ref]
    /\ path' = [path EXCEPT ![c] = getPluralPath(objects[ref])]
    /\ pc' = [pc EXCEPT ![c] = "done"]
    /\ UNCHANGED <<objects, sent, results, promise, uncaught>>

NextPath ==
    \E c \in Calls, ref \in Refs : CallGetPluralPath(c, ref) /\ UNCHANGED env

SpecPath == InitPath /\ [][NextPath]_vars

(***************************************************************************)
(* Properties of applyObject and delObject.                                *)
(***************************************************************************)
\* the paths the two objects of the model stand for
ExpectedPluralPath(ref) ==
    IF ref = "o1"
    THEN <<"/","a","p","i","/","v","1","/","n","a","m","e","s","p","a","c","e","s","/","n","s","1","/","s","e","r","v","i","c","e","s">>
    ELSE <<"/","a","p","i","s","/","a","p","p","s","/","v","1","/","n","a","m","e","s","p","a","c","e","s","/","n","s","2","/","d","e","p","l","o","y","m","e","n","t","s">>

ExpectedObjectPath(ref) ==
    IF ref = "o1"
    THEN <<"/","a","p","i","/","v","1","/","n","a","m","e","s","p","a","c","e","s","/","n","s","1","/","s","e","r","v","i","c","e","s","/","s","v","c","-","a">>
    ELSE <<"/","a","p","i","s","/","a","p","p","s","/","v","1","/","n","a","m","e","s","p","a","c","e","s","/","n","s","2","/","d","e","p","l","o","y","m","e","n","t","s","/","w","e","b">>

MethodsSent(c) == [i \in 1..Len(sent[c]) |-> sent[c][i].method]

\* the k-th request of call c was answered with a status
Answered(c, k) == Len(results[c]) >= k /\ results[c][k].state = "fulfilled"

StatusOf(c, k) == results[c][k].value.statusCode

\* the k-th request of call c failed in transport
Failed(c, k) == Len(results[c]) >= k /\ results[c][k].state = "rejected"

\* two objects differ in metadata.resourceVersion at most
SameButResourceVersion(a, b) ==
    /\ DOMAIN a = DOMAIN b
    /\ \A key \in DOMAIN a \ {"metadata"} : a[key] = b[key]
    /\ DOMAIN a.metadata \ {"resourceVersion"} = DOMAIN b.metadata \ {"resourceVersion"}
    /\ \A key \in DOMAIN a.metadata \ {"resourceVersion"} :
            a.metadata[key] = b.metadata[key]

\* C1: an applyObject whose create is answered with any status other than
\* 409 has sent exactly one request, the POST to the plural path of its
\* object, and its promise is fulfilled with exactly the create's result.
C1_CreateResultIsReturned ==
    \A c \in Calls :
        (op[c] = "applyObject" /\ Answered(c, 1) /\ StatusOf(c, 1) # 409)
        => /\ MethodsSent(c) = <<"POST">>
           /\ sent[c][1].path = ExpectedPluralPath(arg[c])
           /\ pc[c] = "done"
           /\ promise[c] = Fulfilled(results[c][1].value)

\* a create that failed hard (403) has been returned to the caller
C1_Witness ==
    \E c \in Calls :
        /\ op[c] = "applyObject"
        /\ Answered(c, 1)
        /\ StatusOf(c, 1) = 403
        /\ promise[c].state = "fulfilled"

\* C2: an applyObject whose create is answered 409 and whose read is
\* answered 200 has sent exactly POST plural path, GET plural path/name and
\* PUT to that same path, in that order, and the PUT body carries the
\* metadata.resourceVersion the GET returned.
C2_ConflictReadUpdate ==
    \A c \in Calls :
        (/\ op[c] = "applyObject"
         /\ Answered(c, 1) /\ StatusOf(c, 1) = 409
         /\ Answered(c, 2) /\ StatusOf(c, 2) = 200)
        => /\ MethodsSent(c) = <<"POST", "GET", "PUT">>
           /\ sent[c][1].path = ExpectedPluralPath(arg[c])
           /\ sent[c][2].path = ExpectedObjectPath(arg[c])
           /\ sent[c][3].path = sent[c][2].path
           /\ LET body == JSONparse(sent[c][3].body)
              IN  /\ body.ok
                  /\ "metadata" \in DOMAIN body.value
                  /\ "resourceVersion" \in DOMAIN body.value.metadata
                  /\ body.value.metadata.resourceVersion
                        = results[c][2].value.data.metadata.resourceVersion

\* the update is in flight with a resourceVersion that the object did not
\* carry before
C2_Witness ==
    \E c \in Calls :
        /\ op[c] = "applyObject"
        /\ pc[c] = "update"
        /\ Answered(c, 2) /\ StatusOf(c, 2) = 200
        /\ results[c][2].value.data.metadata.resourceVersion = <<"4","2">>
        /\ objects[arg[c]] # CallerObject(arg[c])

\* C3 (as claimed): when the read after a 409 is answered with a status
\* other than 200, applyObject is fulfilled with the read's result.
C3_ReadFailureIsReturned ==
    \A c \in Calls :
        (/\ op[c] = "applyObject"
         /\ Answered(c, 1) /\ StatusOf(c, 1) = 409
         /\ Answered(c, 2) /\ StatusOf(c, 2) # 200)
        => promise[c] = Fulfilled(results[c][2].value)

\* C4: when the read after a 409 is answered with a status other than 200,
\* the call ends there having sent the POST and the GET only, and the step
\* that handles the read leaves every object as it is; nor has an earlier
\* step of the call (its start, the callback on the create) changed one.
C4_ReadFailureSendsNoUpdate ==
    /\ [](\A c \in Calls :
            (/\ op[c] = "applyObject"
             /\ Answered(c, 1) /\ StatusOf(c, 1) = 409
             /\ Answered(c, 2) /\ StatusOf(c, 2) # 200)
            => /\ MethodsSent(c) = <<"POST", "GET">>
               /\ pc[c] = "done")
    /\ [][\A c \in Calls :
            (/\ op'[c] = "applyObject"
             /\ pc'[c] # pc[c]
             /\ \/ pc'[c] \in {"create", "read"}
                \/ /\ pc[c] = "read"
                   /\ Answered(c, 2)' /\ StatusOf(c, 2)' # 200)
            => objects' = objects]_vars

\* a read answered 403 has ended the call, the object without a
\* resourceVersion as before
C4_Witness ==
    \E c \in Calls :
        /\ op[c] = "applyObject"
        /\ Answered(c, 2) /\ StatusOf(c, 2) = 403
        /\ pc[c] = "done"
        /\ "resourceVersion" \notin DOMAIN objects[arg[c]].metadata

\* C5: applyObject sends at most three requests, POST, GET, PUT in that
\* order and each at most once; when the PUT is answered, whatever the
\* status, the call ends fulfilled with the PUT's result.
C5_UpdateResultIsFinal ==
    \A c \in Calls :
        op[c] = "applyObject"
        => /\ Len(sent[c]) <= 3
           /\ MethodsSent(c) = SubSeq(<<"POST", "GET", "PUT">>, 1, Len(sent[c]))
           /\ Answered(c, 3)
                => /\ Len(sent[c]) = 3
                   /\ pc[c] = "done"
                   /\ promise[c] = Fulfilled(results[c][3].value)

\* an update answered 409 has been returned to the caller
C5_Witness ==
    \E c \in Calls :
        /\ op[c] = "applyObject"
        /\ Answered(c, 3)
        /\ StatusOf(c, 3) = 409
        /\ promise[c].state = "fulfilled"

\* C6: when the create, the read or the update of applyObject fails in
\* transport, the call ends rejected with that error, and the failed
\* request is the last one it has sent.
C6_TransportErrorRejects ==
    \A c \in Calls :
        \A k \in 1..3 :
            (op[c] = "applyObject" /\ Failed(c, k))
            => /\ promise[c] = Rejected(results[c][k].reason)
               /\ pc[c] = "done"
               /\ Len(results[c]) = k
               /\ Len(sent[c]) = k

\* the read has failed in transport
C6_Witness ==
    \E c \in Calls :
        /\ op[c] = "applyObject"
        /\ Failed(c, 2)
        /\ results[c][2].reason = [error |-> "ECONNRESET"]
        /\ promise[c].state = "rejected"

\* C8: the only step of applyObject or delObject that changes an object is
\* the one that sends the update, and it changes metadata.resourceVersion of
\* the call's own object at most.
C8_OnlyResourceVersionChanges ==
    [][\A ref \in Refs :
        objects'[ref] # objects[ref]
        => /\ SameButResourceVersion(objects[ref], objects'[ref])
           /\ \E c \in Calls :
                /\ op[c] = "applyObject"
                /\ arg[c] = ref
                /\ pc[c] = "read"
                /\ pc'[c] = "update"
                /\ Len(sent'[c]) = Len(sent[c]) + 1
                /\ sent'[c][Len(sent'[c])].method = "PUT"]_vars

\* a delObject has ended on an object that an earlier applyObject gave a
\* resourceVersion
C8_Witness ==
    \E c \in Calls :
        /\ op[c] = "delObject"
        /\ pc[c] = "done"
        /\ arg[c] = "o1"
        /\ "resourceVersion" \in DOMAIN objects["o1"].metadata

\* C9: delObject sends exactly one request, a DELETE without body to the
\* path of the object, and ends fulfilled with its result, whatever the
\* status.
C9_DeleteIsOneRequest ==
    \A c \in Calls :
        op[c] = "delObject"
        => /\ MethodsSent(c) = <<"DELETE">>
           /\ sent[c][1].path = ExpectedObjectPath(arg[c])
           /\ sent[c][1].body = <<>>
           /\ Len(results[c]) <= 1
           /\ Answered(c, 1)
                => /\ pc[c] = "done"
                   /\ promise[c] = Fulfilled(results[c][1].value)

\* a delete answered 404 has been returned to the caller
C9_Witness ==
    \E c \in Calls :
        /\ op[c] = "delObject"
        /\ Answered(c, 1)
        /\ StatusOf(c, 1) = 404
        /\ promise[c].state = "fulfilled"

(***************************************************************************)
(* Properties of the transport.                                            *)
(***************************************************************************)
\* C7 (as claimed): a call whose response has ended is settled; when the
\* body of the response is no JSON, the promise of the call is rejected.
C7_UnparsableBodyRejects ==
    \A c \in Calls :
        c \in uncaught => promise[c].state = "rejected"

(***************************************************************************)
(* Properties of getPluralPath.                                            *)
(***************************************************************************)
ContainsSlash(s) == \E i \in 1..Len(s) : s[i] = "/"

\* C10 (as claimed): the path starts with /apis/<apiVersion>/ when
\* apiVersion contains a '/' at any position, with /api/<apiVersion>/ when
\* it contains none, and ends with /namespaces/<namespace>/ and the
\* lowercased kind followed by one 's'.
C10_PluralPathByGroup ==
    \A c \in Calls :
        (op[c] = "getPluralPath" /\ pc[c] = "done")
        => LET object == objects[arg[c]]
           IN  /\ ContainsSlash(object.apiVersion)
                    => IsPrefix(<<"/","a","p","i","s","/">> \o object.apiVersion \o <<"/">>, path[c])
               /\ ~ContainsSlash(object.apiVersion)
                    => IsPrefix(<<"/","a","p","i","/">> \o object.apiVersion \o <<"/">>, path[c])
               /\ IsSuffix(<<"/","n","a","m","e","s","p","a","c","e","s","/">> \o object.metadata.namespace \o <<"/">>
                            \o toLowerCase(object.kind) \o <<"s">>, path[c])


(***************************************************************************)
(* Properties of the wrappers under caller-supplied options.               *)
(***************************************************************************)
\* the first request of a call: the only one of a wrapper
FirstSent(c) == sent[c][1]

\* C11: every request of post and put carries the JSON serialization of the
\* object as its body, Content-Type application/json, and the byte length of
\* that body as Content-Length, whatever options the caller passed (options
\* with headers or postData of their own included).
C11_BodyAndContentHeaders ==
    \A c \in Calls :
        (op[c] \in {"post", "put"} /\ sent[c] # <<>>) =>
            LET body == JSONstringify(objects[arg[c]])
                headers == FirstSent(c).headers
            IN  /\ FirstSent(c).body = body
                /\ "Content-Type" \in DOMAIN headers
                /\ headers["Content-Type"] = "application/json"
                /\ "Content-Length" \in DOMAIN headers
                /\ headers["Content-Length"] = byteLength(body)

\* the HTTP method a wrapper is named after
OwnMethod(wrapper) ==
    CASE wrapper = "get" -> "GET"
      [] wrapper = "post" -> "POST"
      [] wrapper = "put" -> "PUT"
      [] wrapper = "del" -> "DELETE"

\* C12: get always sends GET, post always POST, put always PUT and del always
\* DELETE, also when the caller's options carry another method.
C12_WrapperSendsOwnMethod ==
    \A c \in Calls :
        (op[c] \in {"get", "post", "put", "del"} /\ sent[c] # <<>>) =>
            FirstSent(c).method = OwnMethod(op[c])

\* the headers the caller supplied in options.headers
CallerHeaders(options) ==
    IF options # Undefined /\ "headers" \in DOMAIN options
    THEN options.headers ELSE EmptyObject

\* the request that a call of this step sent carries every header the caller
\* supplied, unchanged, and Authorization: Bearer <token> when the caller
\* supplied no Authorization
SendsCallerHeaders(c, options) ==
    LET headers == FirstSent(c).headers'
    IN  /\ \A key \in DOMAIN CallerHeaders(options) :
                key \in DOMAIN headers /\ headers[key] = CallerHeaders(options)[key]
        /\ "Authorization" \in DOMAIN headers
        /\ "Authorization" \notin DOMAIN CallerHeaders(options) =>
                headers.Authorization = "Bearer " \o token

\* C13: every request carries Authorization: Bearer <token>, unless the
\* caller supplied an Authorization header in options.headers: then the
\* caller's value is sent unchanged. No header of the caller is overwritten
\* by a default.
C13_CallerHeadersWin ==
    [][\A c \in Calls, p \in CallerPaths, ref \in Refs, options \in CallerOptions :
        /\ CallRequest(c, p, options) => SendsCallerHeaders(c, options)
        /\ CallGet(c, p, options) => SendsCallerHeaders(c, options)
        /\ CallPost(c, p, ref, options) => SendsCallerHeaders(c, options)
        /\ CallPut(c, p, ref, options) => SendsCallerHeaders(c, options)
        /\ CallDel(c, p, options) => SendsCallerHeaders(c, options)]_vars

(***************************************************************************)
(* Properties of sequences of calls.                                       *)
(***************************************************************************)
\* C16: when the caller supplies the same object, written without
\* metadata.resourceVersion, to applyObject again and again, the body of
\* every create (POST) has no metadata.resourceVersion: every applyObject
\* sends the create request that the first one sent.
C16_CreateHasNoResourceVersion ==
    \A c \in Calls :
        (op[c] = "applyObject" /\ arg[c] = "o1" /\ sent[c] # <<>>) =>
            /\ FirstSent(c).method = "POST"
            /\ "resourceVersion" \notin
                    DOMAIN JSONparse(FirstSent(c).body).value.metadata
            /\ FirstSent(c) =
                    Wire(post(ExpectedPluralPath("o1"), CallerObject("o1"), Undefined))

\* what a wrapper sends when it is given the options as the caller wrote
\* them, {}
SentWithOwnOptions(c) ==
    CASE op[c] = "request" -> Wire(request(path[c], EmptyObject))
      [] op[c] = "get" -> Wire(get(path[c], EmptyObject))
      [] op[c] = "post" -> Wire(post(path[c], objects[arg[c]], EmptyObject))

\* C17: in every sequence of request / get / post calls, also when the
\* caller passes the same options object to call after call, each request
\* goes to the path of its own call and (post) carries the body of its own
\* object: nothing an earlier call wrote into the options changes the path,
\* method, headers or body of a later call.
C17_OptionsCarryNothingOver ==
    \A c \in Calls :
        (op[c] \in {"request", "get", "post"} /\ sent[c] # <<>>) =>
            /\ FirstSent(c).path = path[c]
            /\ op[c] = "post" => FirstSent(c).body = JSONstringify(objects[arg[c]])
            /\ FirstSent(c) = SentWithOwnOptions(c)

(***************************************************************************)
(* Properties of the constructor.                                          *)
(***************************************************************************)
\* C18: the TLS trust is installed once. However many K8sApi instances are
\* constructed, tls.createSecureContext has one wrapper around the original,
\* and one call of it adds the CA certificate to the context exactly once.
C18_TrustInstalledOnce ==
    /\ Len(createSecureContext) = 1
    /\ \A i \in DOMAIN contexts : contexts[i].caCerts = <<certificate>>

(***************************************************************************)
(* Properties of overlapping applyObject calls.                            *)
(***************************************************************************)
\* the resourceVersion the read of a call returned
VersionRead(c) == results[c][2].value.data.metadata.resourceVersion

\* the call went create 409, read 200, update, and the update is answered
Reconciled(c) ==
    /\ op[c] = "applyObject"
    /\ Len(sent[c]) >= 3
    /\ \A k \in 1..3 : Answered(c, k)
    /\ StatusOf(c, 1) = 409 /\ StatusOf(c, 2) = 200

\* the call has ended, fulfilled with the result of its update, of this status
EndsWith(c, statusCode) ==
    /\ pc[c] = "done"
    /\ promise[c] = results[c][3]
    /\ StatusOf(c, 3) = statusCode

\* both calls read the same resourceVersion and sent it in their updates
SameVersionTwice(c1, c2) ==
    /\ c1 # c2
    /\ Reconciled(c1) /\ Reconciled(c2)
    /\ VersionRead(c1) = VersionRead(c2)
    /\ BodyVersion(sent[c1][3].body) = VersionRead(c1)
    /\ BodyVersion(sent[c2][3].body) = VersionRead(c2)

\* C14: applyObject calls do not exclude each other. Two calls for the same
\* resource can interleave so that both creates are answered 409, both reads
\* return the same resourceVersion and both updates carry it (C14_Witness
\* is such a state); whenever they do, the server accepts one of the
\* updates and the other call ends with the 409 of its update.
C14_DoubleConflict ==
    \A c1, c2 \in ConcurrentCalls :
        SameVersionTwice(c1, c2) =>
            \/ EndsWith(c1, 200) /\ EndsWith(c2, 409)
            \/ EndsWith(c1, 409) /\ EndsWith(c2, 200)

C14_Witness ==
    /\ SameVersionTwice(1, 2)
    /\ sent[1][3].method = "PUT" /\ sent[2][3].method = "PUT"
    /\ EndsWith(1, 200) /\ EndsWith(2, 409)

\* C15: under every interleaving of overlapping applyObject calls, calls
\* given the same object reference included, the resourceVersion in the
\* body of a call's update (PUT) is the one that call's own read (GET)
\* returned.
C15_UpdateCarriesOwnRead ==
    \A c \in ConcurrentCalls :
        (op[c] = "applyObject" /\ Len(sent[c]) >= 3) =>
            /\ sent[c][3].method = "PUT"
            /\ Len(results[c]) >= 2 /\ Answered(c, 2) /\ StatusOf(c, 2) = 200
            /\ BodyVersion(sent[c][3].body) = VersionRead(c)

\* both calls were given the same object, read different versions, and both
\* updates are sent
C15_Witness ==
    /\ op[1] = "applyObject" /\ op[2] = "applyObject"
    /\ arg[1] = arg[2]
    /\ Len(sent[1]) = 3 /\ Len(sent[2]) = 3
    /\ pc[1] = "update" /\ pc[2] = "update"
    /\ VersionRead(1) # VersionRead(2)
    /\ BodyVersion(sent[1][3].body) = VersionRead(1)
    /\ BodyVersion(sent[2][3].body) = VersionRead(2)

====
